---------------------------- MODULE Spec2Model ----------------------------
(***************************************************************************)
(* Model of src/treecompare.py: the streaming directory scanner            *)
(* (Scanner.main / Scanner.scan / Scanner.wrap), the skip-pattern matcher  *)
(* (get_skip_checker) and the snapshot comparator (Comparer.main /         *)
(* Comparer.compare).                                                      *)
(*                                                                         *)
(* Text is modelled as a sequence of symbols.  A symbol is one character   *)
(* ("a", "/", "{", "\"" ...); the fixed literals of the program that are   *)
(* never taken apart ("symlink", "skipped dir", "dir", "n/a", ...) are one *)
(* symbol each.                                                            *)
(***************************************************************************)
EXTENDS Integers, Sequences, FiniteSets, TLC

\* ------------------------------------------------------------------ bounds
\* Largest number of entries (over all levels) of a generated tree.
MaxEntries == 2
\* Largest number of entries (over all levels) of a generated file system.
MaxFsEntries == 3
\* Largest --depth argument tried (besides "no --depth").
MaxDepthArg == 1

\* ----------------------------------------------------------------- strings
\* Entry names: a plain one, and one holding a character that str_encode
\* has to escape.
Names == { <<"g">>, <<"a", "\"">> }

\* Scan roots / top-level keys of snapshot documents.
RootPaths == { <<"r">>, <<"/", "g">> }

\* Byte sizes of regular files (one and two decimal digits).
FileSizes == {3, 12}

\* Code points, for sorting and case folding.
Ord(c) ==
  CASE c = "\"" -> 34
    [] c = "*"  -> 42
    [] c = "/"  -> 47
    [] c = "?"  -> 63
    [] c = "G"  -> 71
    [] c = "R"  -> 82
    [] c = "\\" -> 92
    [] c = "a"  -> 97
    [] c = "g"  -> 103
    [] c = "r"  -> 114
    [] OTHER    -> 0

\* re.IGNORECASE on the characters of the model.
Lower(c) ==
  CASE c = "G" -> "g"
    [] c = "R" -> "r"
    [] OTHER   -> c

\* Python's str < str: lexicographic on code points.
RECURSIVE StrLess(_, _)
StrLess(s, t) ==
  IF t = <<>> THEN FALSE
  ELSE IF s = <<>> THEN TRUE
  ELSE IF Head(s) = Head(t) THEN StrLess(Tail(s), Tail(t))
  ELSE Ord(Head(s)) < Ord(Head(t))

\* sorted(S) for a set of strings.
RECURSIVE Sorted(_)
Sorted(S) ==
  IF S = {} THEN <<>>
  ELSE LET m == CHOOSE x \in S : \A y \in S \ {x} : StrLess(x, y)
       IN  <<m>> \o Sorted(S \ {m})

\* str(n) for n >= 0.
Digit(d) ==
  CASE d = 0 -> "0" [] d = 1 -> "1" [] d = 2 -> "2" [] d = 3 -> "3"
    [] d = 4 -> "4" [] d = 5 -> "5" [] d = 6 -> "6" [] d = 7 -> "7"
    [] d = 8 -> "8" [] OTHER -> "9"

RECURSIVE IntStr(_)
IntStr(n) ==
  IF n < 10 THEN <<Digit(n)>> ELSE IntStr(n \div 10) \o <<Digit(n % 10)>>

\* posixpath.join(prefix, k)
PathJoin(prefix, k) ==
  IF k # <<>> /\ Head(k) = "/" THEN k
  ELSE IF prefix = <<>> \/ prefix[Len(prefix)] = "/" THEN prefix \o k
  ELSE prefix \o <<"/">> \o k

\* ------------------------------------------------------------- PathMatcher
\* re.compile(fnmatch.translate(p), re.IGNORECASE).match(s): "*" is any run
\* of characters, "?" is one character, the whole of s has to match.
RECURSIVE GlobMatch(_, _)
GlobMatch(p, s) ==
  IF p = <<>> THEN s = <<>>
  ELSE IF Head(p) = "*"
       THEN GlobMatch(Tail(p), s) \/ (s # <<>> /\ GlobMatch(p, Tail(s)))
  ELSE IF s = <<>> THEN FALSE
  ELSE IF Head(p) = "?" THEN GlobMatch(Tail(p), Tail(s))
  ELSE Lower(Head(p)) = Lower(Head(s)) /\ GlobMatch(Tail(p), Tail(s))

\* The rewrite of get_skip_checker: a pattern not starting with "*", "?"
\* or "/" gets "*/" in front.
NormalizePattern(p) ==
  IF p # <<>> /\ Head(p) \in {"*", "?", "/"} THEN p ELSE <<"*", "/">> \o p

\* get_skip_checker(skip_list)(path)
SkipCheck(skip_list, path) ==
  \E i \in 1..Len(skip_list) : GlobMatch(NormalizePattern(skip_list[i]), path)

\* The --skip option lists tried.
SkipLists ==
  { <<>>,
    << <<"G">>, <<"/", "g", "/", "?", "?">>, <<"G">> >> }

\* ---------------------------------------------------------- snapshot values
\* What json.load yields: dict, int or str.
EmptyMap == <<>>
DictVal(e) == [t |-> "dict", n |-> 0, s |-> <<>>, e |-> e]
IntVal(n)  == [t |-> "int",  n |-> n, s |-> <<>>, e |-> EmptyMap]
StrVal(s)  == [t |-> "str",  n |-> 0, s |-> s,    e |-> EmptyMap]

\* The marker vocabulary of Scanner.scan.
SYMLINK         == <<"symlink">>
SKIPPED_DIR     == <<"skipped dir">>
UNLISTED_DIR    == <<"unlisted dir">>
PERMISSIONERROR == <<"<permissionerror>">>
Markers == {SYMLINK, SKIPPED_DIR, UNLISTED_DIR, PERMISSIONERROR}

\* Number of entries of a value, over all levels.
RECURSIVE Entries(_)
Entries(v) ==
  LET RECURSIVE Sum(_)
      Sum(S) == IF S = {} THEN 0
                ELSE LET k == CHOOSE x \in S : TRUE
                     IN  1 + Entries(v.e[k]) + Sum(S \ {k})
  IN  Sum(DOMAIN v.e)

\* Well-formed values with at most n entries: directories as mappings,
\* non-negative sizes, markers of the scanner's vocabulary.
RECURSIVE Values(_)
Values(n) ==
  {IntVal(z) : z \in FileSizes} \cup {StrVal(m) : m \in Markers} \cup
  { DictVal(e) :
      e \in UNION { IF S = {} THEN {EmptyMap}
                    ELSE { f \in [S -> Values(n - Cardinality(S))] :
                             Entries(DictVal(f)) <= n }
                    : S \in {T \in SUBSET Names : Cardinality(T) <= n} } }

\* A Snapshot document: one top-level key, the root path.
Snapshot(root, v) == DictVal(root :> v)

\* ---------------------------------------------------------------- Comparer
\* A printed line of Comparer._report.
DiffRecord(path, a, b) == [path |-> path, left |-> a, right |-> b]

N_A == <<"n/a">>

\* A variant of ItemType: every value that is not a file is a "dir".
ItemTypeDirDefault(x) ==
  IF x.t = "int" THEN <<"file">> ELSE <<"dir">>

ItemType(x) ==
  IF x.t = "dict" THEN <<"dir">>
  ELSE IF x.t = "int" THEN <<"file">>
  ELSE x.s

\* f'{a_k}b'
SizeLabel(n) == IntStr(n) \o <<"b">>

RECURSIVE compare(_, _, _, _)

\* k only in a
OnlyInA(a, prefix, k) ==
  << DiffRecord(PathJoin(prefix, k), ItemType(a.e[k]), N_A) >>

\* A variant of OnlyInB: the columns in the order of OnlyInA.
OnlyInBUnswapped(b, prefix, k) ==
  << DiffRecord(PathJoin(prefix, k), ItemType(b.e[k]), N_A) >>

\* k only in b
OnlyInB(b, prefix, k) ==
  << DiffRecord(PathJoin(prefix, k), N_A, ItemType(b.e[k])) >>

\* A variant of InBoth: the type labels are reported without comparing them.
InBothUnguarded(skip, a, b, prefix, k) ==
  LET a_k  == a.e[k]
      b_k  == b.e[k]
      path == PathJoin(prefix, k)
  IN  IF SkipCheck(skip, path) THEN <<>>
      ELSE IF a_k.t = "dict" /\ b_k.t = "dict" THEN compare(skip, a_k, b_k, path)
      ELSE IF a_k.t = "int" /\ b_k.t = "int"
           THEN IF a_k.n # b_k.n
                THEN << DiffRecord(path, SizeLabel(a_k.n), SizeLabel(b_k.n)) >>
                ELSE <<>>
      ELSE << DiffRecord(path, ItemType(a_k), ItemType(b_k)) >>

\* k in both
InBoth(skip, a, b, prefix, k) ==
  LET a_k  == a.e[k]
      b_k  == b.e[k]
      path == PathJoin(prefix, k)
  IN  IF SkipCheck(skip, path) THEN <<>>
      ELSE IF a_k.t = "dict" /\ b_k.t = "dict" THEN compare(skip, a_k, b_k, path)
      ELSE IF a_k.t = "int" /\ b_k.t = "int"
           THEN IF a_k.n # b_k.n
                THEN << DiffRecord(path, SizeLabel(a_k.n), SizeLabel(b_k.n)) >>
                ELSE <<>>
      ELSE IF ItemType(a_k) # ItemType(b_k)
           THEN << DiffRecord(path, ItemType(a_k), ItemType(b_k)) >>
           ELSE <<>>

\* Comparer(skip_check).compare(a, b, prefix): the lines printed, in order.
compare(skip, a, b, prefix) ==
  LET RECURSIVE Loop(_)
      Loop(ks) ==
        IF ks = <<>> THEN <<>>
        ELSE LET k == Head(ks)
             IN  (IF k \notin DOMAIN b.e THEN OnlyInA(a, prefix, k)
                  ELSE IF k \notin DOMAIN a.e THEN OnlyInB(b, prefix, k)
                  ELSE InBoth(skip, a, b, prefix, k))
                 \o Loop(Tail(ks))
  IN  Loop(Sorted(DOMAIN a.e \cup DOMAIN b.e))

\* A variant of RelativeRoot: the top-level dictionary is kept.
RelativeRootKept(tree) == tree

\* "k, = tree.keys(); tree = tree[k]" of Comparer.main.
RelativeRoot(tree) == tree.e[CHOOSE k \in DOMAIN tree.e : TRUE]

\* The outcome of one run of Comparer.main on the dumps (x, y).
NotRun == [ran |-> FALSE, error |-> "", lines |-> <<>>]
ComparerRun(skip, relative, x, y) ==
  LET ta == IF relative THEN RelativeRoot(x) ELSE x
      tb == IF relative THEN RelativeRoot(y) ELSE y
  IN  IF ta.t = "dict" /\ tb.t = "dict"
      THEN [ran |-> TRUE, error |-> "", lines |-> compare(skip, ta, tb, <<>>)]
      ELSE [ran |-> TRUE, error |-> "AttributeError", lines |-> <<>>]

\* ------------------------------------------------------------- file system
\* What os.scandir and the DirEntry methods report of a node.  acc is the
\* outcome of the system call made on it (os.scandir of a directory,
\* DirEntry.stat of a file): "ok", "denied" (PermissionError) or "oserror"
\* (any other OSError).
FsFile(size, acc) == [kind |-> "file", size |-> size, acc |-> acc, e |-> EmptyMap]
FsSymlink == [kind |-> "symlink", size |-> 0, acc |-> "ok", e |-> EmptyMap]
FsOther   == [kind |-> "other", size |-> 0, acc |-> "ok", e |-> EmptyMap]
FsDir(acc, e) == [kind |-> "dir", size |-> 0, acc |-> acc, e |-> e]

RECURSIVE FsEntries(_)
FsEntries(v) ==
  LET RECURSIVE Sum(_)
      Sum(S) == IF S = {} THEN 0
                ELSE LET k == CHOOSE x \in S : TRUE
                     IN  1 + FsEntries(v.e[k]) + Sum(S \ {k})
  IN  Sum(DOMAIN v.e)

\* File system nodes with at most n entries below them.  What a directory
\* that cannot be listed holds is never seen: such a directory is empty or
\* holds one file.
RECURSIVE FsNodes(_)
FsNodes(n) ==
  {FsFile(z, "ok") : z \in FileSizes} \cup {FsFile(0, "oserror"), FsSymlink, FsOther}
  \cup
  { FsDir(acc, e) :
      acc \in {"denied", "oserror"},
      e \in {EmptyMap} \cup (IF n >= 1 THEN {<<"g">> :> FsFile(3, "ok")} ELSE {}) }
  \cup
  { FsDir("ok", e) :
      e \in UNION { IF S = {} THEN {EmptyMap}
                    ELSE { f \in [S -> FsNodes(n - Cardinality(S))] :
                             FsEntries(FsDir("ok", f)) <= n }
                    : S \in {T \in SUBSET Names : Cardinality(T) <= n} } }

\* ----------------------------------------------------------------- Scanner
\* A variant of StrEncode: quotes only, nothing escaped.
StrEncodeRaw(s) == <<"\"">> \o s \o <<"\"">>

\* json.encoder.encode_basestring_ascii on the characters of the model.
RECURSIVE Escape(_)
Escape(s) ==
  IF s = <<>> THEN <<>>
  ELSE (IF Head(s) = "\"" THEN <<"\\", "\"">>
        ELSE IF Head(s) = "\\" THEN <<"\\", "\\">>
        ELSE <<Head(s)>>) \o Escape(Tail(s))

StrEncode(s) == <<"\"">> \o Escape(s) \o <<"\"">>

\* The marker literals written by Scanner.scan, quotes included.
Quoted(m) == <<"\"">> \o m \o <<"\"">>

\* max_depth: None or an integer.
NoDepth == [none |-> TRUE, v |-> 0]
Depth(n) == [none |-> FALSE, v |-> n]
DepthArgs == {NoDepth} \cup {Depth(n) : n \in 0..MaxDepthArg}

\* A variant of DepthExhausted: the bound is used up one level later.
DepthExhaustedBelowZero(max_depth) == ~max_depth.none /\ max_depth.v < 0

\* "max_depth is not None and max_depth <= 0"
DepthExhausted(max_depth) == ~max_depth.none /\ max_depth.v <= 0

\* "None if max_depth is None else max_depth - 1"
DepthBelow(max_depth) ==
  IF max_depth.none THEN max_depth ELSE Depth(max_depth.v - 1)

\* A pending call scan(path, prefix, max_depth); dir is the directory the
\* path names.
NoCall == [active |-> FALSE, path |-> <<>>, prefix |-> <<>>,
           max_depth |-> NoDepth, dir |-> FsOther]
Call(path, prefix, max_depth, dir) ==
  [active |-> TRUE, path |-> path, prefix |-> prefix,
   max_depth |-> max_depth, dir |-> dir]

\* add_item(item): the fragment written.
AddItem(frame, item) == frame.joiner \o <<"\n">> \o frame.prefix \o item

INDENT == <<" ">>

\* A variant of Branch: the skip checker is not asked.
BranchUnchecked(skip_list, max_depth, path, x) ==
  IF x.kind = "symlink" THEN "symlink"
  ELSE IF x.kind = "file" THEN "file"
  ELSE IF x.kind = "dir"
       THEN IF DepthExhausted(max_depth) THEN "unlisted" ELSE "descend"
  ELSE "other"

\* The if/elif chain of the loop body of scan, for entry x at path.
Branch(skip_list, max_depth, path, x) ==
  IF x.kind = "symlink" THEN "symlink"
  ELSE IF x.kind = "file" THEN "file"
  ELSE IF x.kind = "dir"
       THEN IF DepthExhausted(max_depth) THEN "unlisted"
            ELSE IF SkipCheck(skip_list, path) THEN "skipped"
            ELSE "descend"
  ELSE "other"

\* ------------------------------------------------------------------- state
VARIABLES
  skip,       \* arguments.skip of the command run
  relative,   \* arguments.relative
  tree_a,     \* the parsed first dump
  tree_b,     \* the parsed second dump
  runAB,      \* outcome of "compare DUMP_A DUMP_B"
  runBA,      \* outcome of "compare DUMP_B DUMP_A"
  root,       \* arguments.dir
  depth_arg,  \* arguments.depth
  fs,         \* the directory arguments.dir names
  pc,         \* "idle", "scan", "done" or "aborted" (an exception left main)
  call,       \* the scan() call being entered, if any
  stack,      \* the scan() frames inside their "with self.wrap" block
  out,        \* the fragments written to the sink, in order
  log         \* the paths log.warning was called with

cmpVars  == <<relative, tree_a, tree_b, runAB, runBA>>
scanVars == <<root, depth_arg, fs, pc, call, stack, out, log>>
vars == <<skip, cmpVars, scanVars>>

EmptySnapshot == DictVal(EmptyMap)

\* ------------------------------------------------------------ compare runs
ScanIdle ==
  /\ root = <<"r">>
  /\ depth_arg = NoDepth
  /\ fs = FsDir("ok", EmptyMap)
  /\ pc = "off"
  /\ call = NoCall
  /\ stack = <<>>
  /\ out = <<>>
  /\ log = {}

InitCmp ==
  /\ skip \in SkipLists
  /\ relative \in BOOLEAN
  /\ \E rb \in RootPaths, va \in Values(MaxEntries), vb \in Values(MaxEntries) :
        /\ tree_a = Snapshot(<<"r">>, va)
        /\ tree_b = Snapshot(rb, vb)
  /\ runAB = NotRun
  /\ runBA = NotRun
  /\ ScanIdle

\* compare DUMP_A DUMP_B
ComparerMainAB ==
  /\ pc = "off"
  /\ ~runAB.ran
  /\ runAB' = ComparerRun(skip, relative, tree_a, tree_b)
  /\ UNCHANGED <<skip, relative, tree_a, tree_b, runBA, scanVars>>

\* compare DUMP_B DUMP_A, run after that
ComparerMainBA ==
  /\ pc = "off"
  /\ runAB.ran /\ ~runBA.ran
  /\ runBA' = ComparerRun(skip, relative, tree_b, tree_a)
  /\ UNCHANGED <<skip, relative, tree_a, tree_b, runAB, scanVars>>

NextCmp == ComparerMainAB \/ ComparerMainBA

SpecCmp == InitCmp /\ [][NextCmp]_vars

\* --------------------------------------------------------------- scan runs
InitScan ==
  /\ skip \in SkipLists
  /\ root \in RootPaths
  /\ depth_arg \in DepthArgs
  /\ fs \in {d \in FsNodes(MaxFsEntries) : d.kind = "dir"}
  /\ pc = "idle"
  /\ call = NoCall
  /\ stack = <<>>
  /\ out = <<>>
  /\ log = {}
  /\ relative = FALSE
  /\ tree_a = EmptySnapshot
  /\ tree_b = EmptySnapshot
  /\ runAB = NotRun
  /\ runBA = NotRun

Top == stack[Len(stack)]
Running == pc = "scan" /\ ~call.active /\ stack # <<>>
EntryPath(x) == PathJoin(Top.path, x)
TopBranch(x) == Branch(skip, Top.max_depth, EntryPath(x), Top.dir.e[x])

\* A scan changes neither its arguments nor the file system.
ScanFixed == UNCHANGED <<skip, root, depth_arg, fs, cmpVars>>

\* Entry x is the next one "for x in listing" yields in the innermost frame.
NextEntry(x) == Running /\ x \in Top.listing

\* The frame after add_item and the step of "for x in listing".
Advance(x) ==
  [stack EXCEPT ![Len(stack)] =
     [@ EXCEPT !.listing = @ \ {x}, !.joiner = <<",">>]]

\* An exception leaves every "with" block and main: nothing more is written.
Abort ==
  /\ pc' = "aborted"
  /\ call' = NoCall
  /\ stack' = <<>>
  /\ UNCHANGED <<out, log>>
  /\ ScanFixed

\* Scanner.main up to the call of scan: the opening of the wrapper.
ScannerMain ==
  /\ pc = "idle"
  /\ pc' = "scan"
  /\ out' = Append(out, <<"{">> \o StrEncode(root) \o <<":">>)
  /\ call' = Call(root, <<>>, depth_arg, fs)
  /\ UNCHANGED <<stack, log>>
  /\ ScanFixed

\* A variant of ScanDenied: the PermissionError is not caught.
ScanDeniedUncaught ==
  /\ pc = "scan" /\ call.active /\ call.dir.acc = "denied"
  /\ Abort

\* scan(): os.scandir raises PermissionError.
ScanDenied ==
  /\ pc = "scan" /\ call.active /\ call.dir.acc = "denied"
  /\ out' = Append(out, Quoted(PERMISSIONERROR))
  /\ call' = NoCall
  /\ UNCHANGED <<pc, stack, log>>
  /\ ScanFixed

\* scan(): os.scandir raises another OSError.
ScanRaise ==
  /\ pc = "scan" /\ call.active /\ call.dir.acc = "oserror"
  /\ Abort

\* scan(): the listing is obtained and the "with self.wrap" block entered.
ScanOpen ==
  /\ pc = "scan" /\ call.active /\ call.dir.acc = "ok"
  /\ out' = Append(out, <<"{">>)
  /\ stack' = Append(stack, [path |-> call.path, prefix |-> call.prefix,
                             max_depth |-> call.max_depth, dir |-> call.dir,
                             listing |-> DOMAIN call.dir.e, joiner |-> <<>>])
  /\ call' = NoCall
  /\ UNCHANGED <<pc, log>>
  /\ ScanFixed

\* for x in listing: a symlink.
EntrySymlink(x) ==
  /\ NextEntry(x)
  /\ TopBranch(x) = "symlink"
  /\ out' = Append(out, AddItem(Top, StrEncode(x) \o <<":">> \o Quoted(SYMLINK)))
  /\ stack' = Advance(x)
  /\ UNCHANGED <<pc, call, log>>
  /\ ScanFixed

\* for x in listing: a regular file.
EntryFile(x) ==
  /\ NextEntry(x)
  /\ TopBranch(x) = "file" /\ Top.dir.e[x].acc = "ok"
  /\ out' = Append(out, AddItem(Top, StrEncode(x) \o <<":">>
                                      \o IntStr(Top.dir.e[x].size)))
  /\ stack' = Advance(x)
  /\ UNCHANGED <<pc, call, log>>
  /\ ScanFixed

\* for x in listing: a regular file whose stat() raises.
EntryFileRaise(x) ==
  /\ NextEntry(x)
  /\ TopBranch(x) = "file" /\ Top.dir.e[x].acc # "ok"
  /\ Abort

\* for x in listing: a directory, the depth bound used up.
EntryUnlisted(x) ==
  /\ NextEntry(x)
  /\ TopBranch(x) = "unlisted"
  /\ out' = Append(out, AddItem(Top, StrEncode(x) \o <<":">> \o Quoted(UNLISTED_DIR)))
  /\ stack' = Advance(x)
  /\ UNCHANGED <<pc, call, log>>
  /\ ScanFixed

\* for x in listing: a directory the skip checker matches.
EntrySkipped(x) ==
  /\ NextEntry(x)
  /\ TopBranch(x) = "skipped"
  /\ out' = Append(out, AddItem(Top, StrEncode(x) \o <<":">> \o Quoted(SKIPPED_DIR)))
  /\ stack' = Advance(x)
  /\ UNCHANGED <<pc, call, log>>
  /\ ScanFixed

\* for x in listing: a directory that is descended into.
EntryDescend(x) ==
  /\ NextEntry(x)
  /\ TopBranch(x) = "descend"
  /\ out' = Append(out, AddItem(Top, StrEncode(x) \o <<":">>))
  /\ stack' = Advance(x)
  /\ call' = Call(EntryPath(x), Top.prefix \o INDENT, DepthBelow(Top.max_depth),
                  Top.dir.e[x])
  /\ UNCHANGED <<pc, log>>
  /\ ScanFixed

\* for x in listing: neither symlink, file nor directory.
EntryOther(x) ==
  /\ NextEntry(x)
  /\ TopBranch(x) = "other"
  /\ log' = log \cup {EntryPath(x)}
  /\ stack' = [stack EXCEPT ![Len(stack)] = [@ EXCEPT !.listing = @ \ {x}]]
  /\ UNCHANGED <<pc, call, out>>
  /\ ScanFixed

\* The listing is used up: the "with self.wrap" block is left.
ScanClose ==
  /\ Running /\ Top.listing = {}
  /\ out' = Append(out, <<"}">>)
  /\ stack' = SubSeq(stack, 1, Len(stack) - 1)
  /\ UNCHANGED <<pc, call, log>>
  /\ ScanFixed

\* scan() has returned to Scanner.main: the wrapper is closed.
ScannerMainClose ==
  /\ pc = "scan" /\ ~call.active /\ stack = <<>>
  /\ out' = Append(out, <<"}">>)
  /\ pc' = "done"
  /\ UNCHANGED <<call, stack, log>>
  /\ ScanFixed

NextScan ==
  \/ ScannerMain
  \/ ScanDenied
  \/ ScanRaise
  \/ ScanOpen
  \/ \E x \in Names : EntrySymlink(x)
  \/ \E x \in Names : EntryFile(x)
  \/ \E x \in Names : EntryFileRaise(x)
  \/ \E x \in Names : EntryUnlisted(x)
  \/ \E x \in Names : EntrySkipped(x)
  \/ \E x \in Names : EntryDescend(x)
  \/ \E x \in Names : EntryOther(x)
  \/ ScanClose
  \/ ScannerMainClose

SpecScan == InitScan /\ [][NextScan]_vars

\* ------------------------------------------------------ claims on compare
Range(q) == {q[i] : i \in 1..Len(q)}
ValueOf(t) == t.e[CHOOSE k \in DOMAIN t.e : TRUE]
RootOf(t) == CHOOSE k \in DOMAIN t.e : TRUE

\* C1: comparing a snapshot with itself prints no line (and raises nothing),
\* whatever the skip patterns; nor does comparing its unwrapped root value
\* with itself print one.
C1_SelfCompareEmpty ==
  (runAB.ran /\ tree_a = tree_b) =>
     (runAB.lines = <<>> /\ (~relative => runAB.error = ""))

\* A self-comparison was run on a snapshot holding a non-empty directory
\* below its root, nothing being skipped.
C1_Witness ==
  /\ runAB.ran /\ tree_a = tree_b /\ ~relative
  /\ skip = <<>>
  /\ \E k \in Names : /\ k \in DOMAIN ValueOf(tree_a).e
                      /\ ValueOf(tree_a).e[k].t = "dict"
                      /\ ValueOf(tree_a).e[k].e # EmptyMap

\* C2: compare(A, B) and compare(B, A) report the same paths, the labels of
\* each line swapped.
SwapColumns(l) == DiffRecord(l.path, l.right, l.left)
C2_SymmetricUpToSwap ==
  (runAB.ran /\ runBA.ran) =>
     /\ {l.path : l \in Range(runAB.lines)} = {l.path : l \in Range(runBA.lines)}
     /\ {SwapColumns(l) : l \in Range(runAB.lines)} = Range(runBA.lines)
     /\ runAB.error = runBA.error

\* Both orders were run on snapshots that differ by an entry on one side
\* only and by a size.
C2_Witness ==
  /\ runAB.ran /\ runBA.ran
  /\ \E l \in Range(runAB.lines) : l.right = N_A
  /\ \E l \in Range(runAB.lines) : l.left # N_A /\ l.right # N_A

\* The path, or a directory above it, is matched by the skip checker.
RECURSIVE Parents(_)
Parents(path) ==
  IF path = <<>> THEN {}
  ELSE LET up == SubSeq(path, 1, Len(path) - 1)
       IN  (IF path[Len(path)] = "/" /\ up # <<>> THEN {up} ELSE {}) \cup Parents(up)
UnderSkipped(path) ==
  SkipCheck(skip, path) \/ \E q \in Parents(path) : SkipCheck(skip, q)

\* C3: no line of compare has a path the skip checker matches or a path
\* beneath a matched one, whether the entry is in both snapshots or in one.
C3_NoSkippedPathReported ==
  /\ runAB.ran => \A l \in Range(runAB.lines) : ~UnderSkipped(l.path)
  /\ runBA.ran => \A l \in Range(runBA.lines) : ~UnderSkipped(l.path)

\* C7: with --relative the two unwrapped root values are compared: the
\* lines are those of the plain comparison of the same trees under one
\* common root with that root taken off the paths, no path starts with a
\* root key, and equal trees under different root paths give no line.
StripRoot(r, l) ==
  DiffRecord(SubSeq(l.path, Len(r) + 2, Len(l.path)), l.left, l.right)
HasPrefix(path, r) == Len(path) >= Len(r) /\ SubSeq(path, 1, Len(r)) = r
C7_RelativeCompare ==
  (runAB.ran /\ relative) =>
     /\ runAB.error = "" <=> (ValueOf(tree_a).t = "dict" /\ ValueOf(tree_b).t = "dict")
     /\ \A l \in Range(runAB.lines) :
          ~HasPrefix(l.path, RootOf(tree_a)) /\ ~HasPrefix(l.path, RootOf(tree_b))
     /\ (skip = <<>> /\ runAB.error = "") =>
          LET r == <<"r">>
              plain == compare(skip, Snapshot(r, ValueOf(tree_a)),
                               Snapshot(r, ValueOf(tree_b)), <<>>)
          IN  runAB.lines = [i \in 1..Len(plain) |-> StripRoot(r, plain[i])]
     /\ ValueOf(tree_a) = ValueOf(tree_b) => runAB.lines = <<>>

\* A relative run on two documents with different root paths and trees that
\* differ: lines are printed; and one where the trees are equal.
C7_Witness ==
  /\ runAB.ran /\ relative /\ runAB.error = ""
  /\ RootOf(tree_a) # RootOf(tree_b)
  /\ ValueOf(tree_a) = ValueOf(tree_b)
  /\ ValueOf(tree_a).e # EmptyMap

\* C10: without skip patterns compare prints no line exactly when the two
\* snapshots are equal.
C10_NoLineIffEqual ==
  (runAB.ran /\ skip = <<>> /\ runAB.error = "") =>
     LET a == IF relative THEN ValueOf(tree_a) ELSE tree_a
         b == IF relative THEN ValueOf(tree_b) ELSE tree_b
     IN  (runAB.lines = <<>>) <=> (a = b)

\* A directory on one side, a marker on the other, at the same path.
C10_Witness ==
  /\ runAB.ran /\ skip = <<>> /\ runAB.error = "" /\ ~relative
  /\ RootOf(tree_a) = RootOf(tree_b)
  /\ ValueOf(tree_a).t = "dict" /\ ValueOf(tree_b).t = "dict"
  /\ \E k \in DOMAIN ValueOf(tree_a).e \cap DOMAIN ValueOf(tree_b).e :
        /\ ValueOf(tree_a).e[k].t = "dict"
        /\ ValueOf(tree_b).e[k].t = "str"
  /\ runAB.lines # <<>>

\* --------------------------------------------------------- reading a dump
\* The text the sink has received.
RECURSIVE Concat(_)
Concat(frags) == IF frags = <<>> THEN <<>> ELSE Head(frags) \o Concat(Tail(frags))

\* A JSON reader for the values a snapshot holds: objects, non-negative
\* integers and strings; blanks and newlines between tokens.
Digits == {"0", "1", "2", "3", "4", "5", "6", "7", "8", "9"}
DigitValue(c) == CHOOSE d \in 0..9 : Digit(d) = c
Fail == [ok |-> FALSE, v |-> IntVal(0), i |-> 0]
Got(v, i) == [ok |-> TRUE, v |-> v, i |-> i]
At(t, i) == IF i >= 1 /\ i <= Len(t) THEN t[i] ELSE "<eof>"

RECURSIVE SkipBlank(_, _)
SkipBlank(t, i) == IF At(t, i) \in {" ", "\n"} THEN SkipBlank(t, i + 1) ELSE i

\* The characters of a string literal from position i on, up to the closing
\* quote; acc is what was read so far.
RECURSIVE ReadChars(_, _, _)
ReadChars(t, i, acc) ==
  LET c == At(t, i)
  IN  IF c = "<eof>" THEN Fail
      ELSE IF c = "\"" THEN Got(StrVal(acc), i + 1)
      ELSE IF c = "\\"
           THEN IF At(t, i + 1) \in {"\"", "\\"}
                THEN ReadChars(t, i + 2, Append(acc, At(t, i + 1)))
                ELSE Fail
      ELSE ReadChars(t, i + 1, Append(acc, c))

ReadString(t, i) == IF At(t, i) = "\"" THEN ReadChars(t, i + 1, <<>>) ELSE Fail

RECURSIVE ReadDigits(_, _, _)
ReadDigits(t, i, acc) ==
  IF At(t, i) \in Digits THEN ReadDigits(t, i + 1, 10 * acc + DigitValue(At(t, i)))
  ELSE Got(IntVal(acc), i)

ReadNumber(t, i) ==
  IF At(t, i) \notin Digits THEN Fail
  ELSE IF At(t, i) = "0" /\ At(t, i + 1) \in Digits THEN Fail
  ELSE ReadDigits(t, i, 0)

RECURSIVE ReadValue(_, _), ReadMembers(_, _, _)

\* One value, blanks before it skipped.
ReadValue(t, i) ==
  LET j == SkipBlank(t, i)
      c == At(t, j)
  IN  IF c = "{"
      THEN IF At(t, SkipBlank(t, j + 1)) = "}"
           THEN Got(DictVal(EmptyMap), SkipBlank(t, j + 1) + 1)
           ELSE ReadMembers(t, j + 1, EmptyMap)
      ELSE IF c = "\"" THEN ReadString(t, j)
      ELSE ReadNumber(t, j)

\* "key": value, then "," and another member or "}".
ReadMembers(t, i, acc) ==
  LET key == ReadString(t, SkipBlank(t, i))
  IN  IF ~key.ok THEN Fail
      ELSE LET c == SkipBlank(t, key.i)
           IN  IF At(t, c) # ":" THEN Fail
               ELSE LET val == ReadValue(t, c + 1)
                    IN  IF ~val.ok THEN Fail
                        ELSE LET e == (key.v.s :> val.v) @@ acc
                                 n == SkipBlank(t, val.i)
                             IN  IF At(t, n) = "," THEN ReadMembers(t, n + 1, e)
                                 ELSE IF At(t, n) = "}" THEN Got(DictVal(e), n + 1)
                                 ELSE Fail

\* json.loads of a whole text.
ReadDocument(t) ==
  LET val == ReadValue(t, 1)
  IN  IF val.ok /\ SkipBlank(t, val.i) = Len(t) + 1 THEN val ELSE Fail

\* The document written by the scan.
Doc == ReadDocument(Concat(out))

\* ---------------------------------------------------------- claims on scan
\* What a scan of directory d (at path, with the given remaining depth) is
\* to record for it: the permission-error marker, or a mapping of its
\* symlinks, regular files and directories.
RECURSIVE Recorded(_, _, _)
Recorded(d, path, max_depth) ==
  IF d.acc = "denied" THEN StrVal(PERMISSIONERROR)
  ELSE DictVal(
    [k \in {x \in DOMAIN d.e : d.e[x].kind # "other"} |->
       LET x == d.e[k]
       IN  IF x.kind = "symlink" THEN StrVal(SYMLINK)
           ELSE IF x.kind = "file" THEN IntVal(x.size)
           ELSE IF DepthExhausted(max_depth) THEN StrVal(UNLISTED_DIR)
           ELSE IF SkipCheck(skip, PathJoin(path, k)) THEN StrVal(SKIPPED_DIR)
           ELSE Recorded(x, PathJoin(path, k), DepthBelow(max_depth))])

\* C4: the text written by a completed scan is one well-formed document
\* with the root path as its only key, and reading it gives the scanned
\* tree.
C4_OutputEncodesSnapshot ==
  pc = "done" =>
     /\ Doc.ok
     /\ Doc.v.t = "dict" /\ DOMAIN Doc.v.e = {root}
     /\ Doc.v = Snapshot(root, Recorded(fs, root, depth_arg))

\* A completed scan of a tree with a nested directory of two entries, one
\* of which has a name that needs escaping.
C4_Witness ==
  /\ pc = "done" /\ Doc.ok
  /\ \E k \in DOMAIN fs.e :
        /\ fs.e[k].kind = "dir" /\ fs.e[k].acc = "ok"
        /\ DOMAIN fs.e[k].e = Names
        /\ k \in DOMAIN Doc.v.e[root].e
        /\ Doc.v.e[root].e[k].t = "dict"
        /\ DOMAIN Doc.v.e[root].e[k].e = Names

\* The entries the document records, each with the node of the file system
\* it stands for, its nesting level (1: the root's own entries) and the
\* depth that remained when its directory was listed.
RECURSIVE Emitted(_, _, _, _, _)
Emitted(v, d, path, level, max_depth) ==
  UNION { LET node == IF k \in DOMAIN d.e THEN d.e[k] ELSE FsOther
              here == [path |-> PathJoin(path, k), level |-> level,
                       depth |-> max_depth, node |-> node, val |-> v.e[k]]
          IN  {here} \cup
              (IF v.e[k].t = "dict"
               THEN Emitted(v.e[k], node, PathJoin(path, k), level + 1,
                            DepthBelow(max_depth))
               ELSE {})
        : k \in DOMAIN v.e }

DocRoot ==
  IF pc = "done" /\ Doc.ok /\ Doc.v.t = "dict" /\ root \in DOMAIN Doc.v.e
  THEN {Doc.v.e[root]} ELSE {}
DocEntries ==
  UNION { IF v.t = "dict" THEN Emitted(v, fs, root, 1, depth_arg) ELSE {}
          : v \in DocRoot }

\* The directories the document lists, with their nodes: the root and the
\* entries recorded as mappings.
DocListed ==
  {[node |-> fs, val |-> v] : v \in {w \in DocRoot : w.t = "dict"}}
  \cup {[node |-> e.node, val |-> e.val] : e \in {f \in DocEntries : f.val.t = "dict"}}

Supported(d) == {k \in DOMAIN d.e : d.e[k].kind # "other"}

\* C5 (as claimed): a directory entry whose full path the skip checker
\* matches is recorded as the skipped-dir marker, whatever the depth
\* setting, and no scan() frame is ever opened for it.
C5_SkippedWhateverDepth ==
  /\ \A i \in 2..Len(stack) : ~SkipCheck(skip, stack[i].path)
  /\ \A e \in DocEntries :
       (e.node.kind = "dir" /\ SkipCheck(skip, e.path)) => e.val = StrVal(SKIPPED_DIR)

\* C5 (amended): a directory entry met while listing whose full path the
\* skip checker matches is never entered (no scan() call, no frame); it is
\* recorded as the skipped-dir marker, unless the depth bound is used up,
\* when it is recorded as the unlisted-dir marker.
C5_SkippedUnlessDepthExhausted ==
  /\ \A i \in 2..Len(stack) : ~SkipCheck(skip, stack[i].path)
  /\ (call.active /\ stack # <<>>) => ~SkipCheck(skip, call.path)
  /\ \A e \in DocEntries :
       (e.node.kind = "dir" /\ SkipCheck(skip, e.path)) =>
          e.val = IF DepthExhausted(e.depth) THEN StrVal(UNLISTED_DIR)
                  ELSE StrVal(SKIPPED_DIR)

\* A completed scan recorded a matched, non-empty directory two levels down
\* as skipped.
C5_Witness ==
  \E e \in DocEntries :
     /\ e.node.kind = "dir" /\ e.node.e # EmptyMap /\ SkipCheck(skip, e.path)
     /\ e.level = 2 /\ e.val = StrVal(SKIPPED_DIR)

\* C6: frame i of the recursion holds the depth bound less i - 1 and is only
\* there if the depth left above it was positive; the root is listed
\* whatever the bound; a directory met with no depth left is recorded as the
\* unlisted-dir marker; nothing deeper than N + 1 levels is recorded; and
\* without a bound no unlisted-dir marker is written.
FrameDepth(i) == IF depth_arg.none THEN NoDepth ELSE Depth(depth_arg.v - (i - 1))
C6_DepthTruncation ==
  /\ \A i \in 1..Len(stack) :
       /\ stack[i].max_depth = FrameDepth(i)
       /\ i >= 2 => (depth_arg.none \/ FrameDepth(i - 1).v > 0)
  /\ call.active => call.max_depth = FrameDepth(Len(stack) + 1)
  /\ (pc = "done" /\ fs.acc = "ok") =>
        \E v \in DocRoot : v.t = "dict" /\ DOMAIN v.e = Supported(fs)
  /\ \A e \in DocEntries :
        /\ ~depth_arg.none => e.level <= depth_arg.v + 1
        /\ (~depth_arg.none /\ e.node.kind = "dir" /\ e.level = depth_arg.v + 1)
              => e.val = StrVal(UNLISTED_DIR)
        /\ e.val = StrVal(UNLISTED_DIR)
              => (~depth_arg.none /\ e.node.kind = "dir" /\ e.level = depth_arg.v + 1)
  /\ depth_arg.none =>
        \A i \in 1..Len(out) : \A j \in 1..Len(out[i]) : out[i][j] # UNLISTED_DIR[1]

\* With --depth 1, a non-empty directory two levels down was recorded as
\* unlisted.
C6_Witness ==
  /\ depth_arg = Depth(1)
  /\ \E e \in DocEntries :
        /\ e.level = 2 /\ e.node.kind = "dir" /\ e.node.e # EmptyMap
        /\ e.val = StrVal(UNLISTED_DIR)

\* C8: a denied listing never ends the scan (it ends early only when some
\* other error is raised, and once the marker is written it has a next
\* step); the node is recorded as the permission-error marker and nothing
\* else, at the root or below; and every listed directory holds all its
\* entries.
RECURSIVE HasOsError(_)
HasOsError(d) ==
  d.acc = "oserror" \/ \E k \in DOMAIN d.e : HasOsError(d.e[k])
C8_DeniedListingRecovered ==
  /\ pc = "aborted" => HasOsError(fs)
  /\ (pc = "scan" /\ out[Len(out)] = Quoted(PERMISSIONERROR)) => ENABLED NextScan
  /\ pc = "done" =>
       LET rootval == DocRoot
           entries == UNION { IF v.t = "dict" THEN Emitted(v, fs, root, 1, depth_arg)
                              ELSE {} : v \in rootval }
           listed  == {[node |-> fs, val |-> v] : v \in {w \in rootval : w.t = "dict"}}
                      \cup {[node |-> e.node, val |-> e.val] :
                               e \in {f \in entries : f.val.t = "dict"}}
       IN  /\ rootval # {}
           /\ fs.acc = "denied" => rootval = {StrVal(PERMISSIONERROR)}
           /\ \A e \in entries :
                 (e.node.kind = "dir" /\ e.node.acc = "denied") =>
                    /\ e.val \in {StrVal(PERMISSIONERROR), StrVal(UNLISTED_DIR),
                                  StrVal(SKIPPED_DIR)}
                    /\ (~DepthExhausted(e.depth) /\ ~SkipCheck(skip, e.path))
                          => e.val = StrVal(PERMISSIONERROR)
           /\ \A l \in listed : DOMAIN l.val.e = Supported(l.node)

\* A completed scan met a denied directory two levels down and recorded
\* two entries in the directory holding it or in the root.
C8_Witness ==
  \E e \in DocEntries :
     /\ e.level = 2 /\ e.node.kind = "dir" /\ e.node.acc = "denied"
     /\ e.val = StrVal(PERMISSIONERROR)
     /\ \E l \in DocListed : Cardinality(DOMAIN l.val.e) = 2

\* C9: once the scan has ended, by returning or by an exception, every
\* opening brace written has its closing brace.
RECURSIVE Count(_, _)
Count(t, c) ==
  IF t = <<>> THEN 0 ELSE (IF Head(t) = c THEN 1 ELSE 0) + Count(Tail(t), c)
C9_EveryOpenClosed ==
  pc \in {"done", "aborted"} => Count(Concat(out), "{") = Count(Concat(out), "}")

=============================================================================
